---- MODULE Spec2Model ----
(***************************************************************************)
(* Wake / refresh / sleep control loop of the ePaper dashboard client      *)
(* (src/unnamed/part_001, an Arduino sketch for an ESP32).                 *)
(*                                                                         *)
(* The sketch is single threaded: setup() runs once after every reset      *)
(* (power-on, ESP.restart(), wake from deep sleep) and loop() is then      *)
(* called again and again.  A light sleep returns inside enterLightSleep,  *)
(* a deep sleep ends in a reset.  Variables marked RTC_DATA_ATTR live in   *)
(* RTC memory: they keep their value across light AND deep sleep and are   *)
(* re-initialised only by a power-on or a software restart; all other      *)
(* globals and statics are re-initialised by every reset.                  *)
(*                                                                         *)
(* The environment (Wi-Fi, HTTP server, wall clock, buttons, hardware      *)
(* faults) is modelled by the inputs the actions draw with \E and by the   *)
(* actions named Env...                                                    *)
(***************************************************************************)
EXTENDS Integers, Sequences, FiniteSets, TLC

\* ------------------------------------------------------------------ bounds
\* number of wakes (light, deep) and restarts a behaviour may contain
MaxWakes == 2
\* number of polls of an empty stream that are counted while a body stalls
MaxStall == 1
\* number of pieces in which the server may deliver one body
MaxChunks == 2
\* largest reading of the battery ADC, millivolts
MaxMilliVolts == 3300
\* calls of checkButtonPress made one after the other
MaxPolls == 3
\* largest wind speed in a weather report, in tenths of the unit requested
MaxWindTenths == 40

\* --------------------------------------------------------------- constants
DEEP_SLEEP_START_HOUR == 0
DEEP_SLEEP_END_HOUR == 5
REFRESH_INTERVAL == 600000
MAX_CONTENT_LENGTH == 150000
HTTP_CODE_OK == 200
SYNC_RETRIES == 10
WAKE_BUFFER_SEC == 120
MinutesPerDay == 24 * 60
DISPLAY_WIDTH == 800
DISPLAY_HEIGHT == 480
\* 3.0 V and 4.2 V, in millivolts
MIN_VOLTAGE == 3000
MAX_VOLTAGE == 4200

HIGH == TRUE
LOW == FALSE

\* ------------------------------------------------------------ input ranges
\* local times (minutes after midnight) an NTP answer may set: 02:30, 04:59,
\* 14:00 and 23:55
StartTimes == {150, 299, 840, 1435}
\* HTTP status codes the server may answer with
HttpCodes == {200, 404}
\* declared content lengths (http.getSize(); -1 = no Content-Length header)
Lengths == {-1, 0, 150000, 150001}
\* what the downloaded bytes turn out to be when the decoder opens them
ImageKinds == {"indexed", "nonindexed", "corrupt"}

Min(a, b) == IF a < b THEN a ELSE b

VARIABLES
    pc,                    \* position of the sketch
    mode,                  \* "awake" | "light" | "deep"
    bootCount,             \* RTC_DATA_ATTR
    timeInitialized,       \* RTC_DATA_ATTR
    displayInitialized,    \* RTC_DATA_ATTR
    lastWakeTime,          \* RTC_DATA_ATTR
    refreshButtonPressed,
    slideButtonPressed,
    lastRefreshState,      \* static of checkButtonPress
    lastSlideState,        \* static of checkButtonPress
    wifi,                  \* "off" | "on" | "connected"
    clockValid,            \* getLocalTime() succeeds
    now,                   \* local time, minutes after midnight
    pngBuffer,             \* "null" | "buf"
    pngBufferSize,
    heapBlocks,            \* blocks malloc'ed and not yet freed
    dl,                    \* locals of downloadPNG and the state of its stream
    rd,                    \* locals of refreshDashboard and its caller
    panelInit,             \* display.init() has run since the last reset
    panel,                 \* what the panel shows
    firstCall,             \* static of showBootStatus
    armed,                 \* wake sources armed for the sleep
    sleepSeconds,          \* deep-sleep timer, seconds
    sleepMs,               \* light-sleep timer, milliseconds
    wakeCause,             \* esp_sleep_get_wakeup_cause()
    cyc,                   \* what has happened in the current wake cycle
    wakes,                 \* wakes and restarts so far
    call                   \* a function of the sketch applied on its own:
                           \* its name, its arguments, what it has returned

rtcVars == <<bootCount, timeInitialized, displayInitialized, lastWakeTime>>
btnVars == <<refreshButtonPressed, slideButtonPressed, lastRefreshState,
             lastSlideState>>
clkVars == <<clockValid, now>>
bufVars == <<pngBuffer, pngBufferSize, heapBlocks>>
dispVars == <<panelInit, panel, firstCall>>
slpVars == <<mode, armed, sleepSeconds, sleepMs, wakeCause, wakes>>

progVars == <<pc, rtcVars, btnVars, wifi, clkVars, bufVars, dl, rd,
              dispVars, slpVars, cyc>>

vars == <<progVars, call>>

\* ------------------------------------------------------------ pure helpers

Hour(t) == t \div 60
Minute(t) == t % 60

\* a window test that takes the end hour in
isDeepSleepTimeInclusive(hour, start, end) == hour >= start /\ hour <= end

\* isDeepSleepTime for a build configured with DEEP_SLEEP_START_HOUR = start
\* and DEEP_SLEEP_END_HOUR = end
isDeepSleepTimeIn(hour, start, end) == hour >= start /\ hour < end

isDeepSleepTime(hour) ==
    isDeepSleepTimeIn(hour, DEEP_SLEEP_START_HOUR, DEEP_SLEEP_END_HOUR)

\* a getSecondsUntil5AM without the branch for the hours after the window
getSecondsUntil5AMSameDay(currentHour, currentMinute) ==
    ((DEEP_SLEEP_END_HOUR - currentHour) * 3600) - (currentMinute * 60)
        + WAKE_BUFFER_SEC

getSecondsUntil5AM(currentHour, currentMinute) ==
    LET hoursUntil5AM == IF currentHour < DEEP_SLEEP_END_HOUR
                         THEN DEEP_SLEEP_END_HOUR - currentHour
                         ELSE (24 - currentHour) + DEEP_SLEEP_END_HOUR
    IN  (hoursUntil5AM * 3600) - (currentMinute * 60) + WAKE_BUFFER_SEC

\* what the panel shows: kind is "unknown" (never written since power-on),
\* "white", "image" or "status"; a status line has its message and its mark
Content(kind) == [kind |-> kind, msg |-> "", ok |-> TRUE]
StatusLine(message, success) ==
    [kind |-> "status", msg |-> message, ok |-> success]

\* a showBootStatus that draws on every boot
showBootStatusAlways(bc, message, success, p) == StatusLine(message, success)

\* showBootStatus: if (bootCount != 1) return; then a paged full-window draw
\* of the message and its mark.  firstPage() starts from a white page buffer,
\* so the panel shows this line alone; the line's y position (statusLineY) is
\* not modelled.
showBootStatus(bc, message, success, p) ==
    IF bc # 1 THEN p ELSE StatusLine(message, success)
showBootStatusFirstCall(bc, fc) == IF bc # 1 THEN fc ELSE FALSE

\* a shutdownWiFi that leaves the radio as it is
shutdownWiFiSkipped(w) == w

\* shutdownWiFi: WiFi.disconnect(true); WiFi.mode(WIFI_OFF)
shutdownWiFi(w) == "off"

\* syncTimeWithNTP as it returned: getLocalTime calls made, whether one of
\* them obtained the time, and the value returned
NoSync == [called |-> FALSE, polls |-> 0, gotTime |-> FALSE, result |-> FALSE]

\* -------------------------------------------------- getBatteryPercentage

\* a getBatteryPercentage without the test for a missing battery
getBatteryPercentageNoSentinel(mv, roundsBelow) ==
    LET num == (mv * 2 - MIN_VOLTAGE) * 100
        den == MAX_VOLTAGE - MIN_VOLTAGE
    IN  IF num < 0 THEN (0 - ((0 - num) \div den))
        ELSE IF num > 100 * den THEN 100 ELSE num \div den

\* getBatteryPercentage for a reading of mv millivolts.  Voltages are kept in
\* millivolts: batteryVoltage = (mv / 1000.0) * 2.0 is mv * 2, 2.5 V is 2500.
\* percentage is a float; (int) cuts its fraction off.  Its exact value is a
\* multiple of 1/6, and the float differs from it by rounding errors far
\* smaller than that, so the cut gives the whole part of the exact value,
\* except that an exact value that is a whole number k may be reached from
\* below and then gives k - 1: roundsBelow says whether it is.  3.0 V and
\* 4.2 V are the constants themselves and give exactly 0 and 100.
getBatteryPercentage(mv, roundsBelow) ==
    LET batteryVoltage == mv * 2
        num == (batteryVoltage - MIN_VOLTAGE) * 100
        den == MAX_VOLTAGE - MIN_VOLTAGE
    IN  IF batteryVoltage < 2500 THEN -1
        ELSE IF num < 0 THEN 0
        ELSE IF num > 100 * den THEN 100
        ELSE IF roundsBelow /\ num % den = 0 /\ num > 0 /\ num < 100 * den
        THEN num \div den - 1
        ELSE num \div den

\* the level of BATTERY_ENABLE_PIN when getBatteryPercentage returns:
\* digitalWrite(HIGH), the reading, digitalWrite(LOW), then the conversion
BatteryEnablePinAtReturn == LOW

\* String(n) of a non-negative int: its decimal digits
RECURSIVE ToDecimal(_)
ToDecimal(n) == IF n < 10 THEN <<n>> ELSE ToDecimal(n \div 10) \o <<n % 10>>

\* a URL that carries the battery parameter whatever the reading is
BuildUrlAlways(batteryPercent) ==
    [path |-> "IMAGE_PATH",
     query |-> <<"battery", IF batteryPercent >= 0 THEN ToDecimal(batteryPercent)
                            ELSE <<"-">> \o ToDecimal(0 - batteryPercent)>>]

\* downloadPNG: the URL it requests, as its path and its query string
BuildUrl(batteryPercent) ==
    IF batteryPercent >= 0
    THEN [path |-> "IMAGE_PATH",
          query |-> <<"battery", ToDecimal(batteryPercent)>>]
    ELSE [path |-> "IMAGE_PATH", query |-> <<>>]

\* ------------------------------------------------------- pngDrawCallback

\* the palettes used as inputs, as the byte array pDraw->pPalette points to
\* (three bytes per entry, j the index of a byte): a grey ramp, a ramp from
\* red to green with some blue, and a grey ramp running down from entry 1
\* (entry 0 black, entry 1 white, entry 129 grey 127)
Palette(name, j) ==
    IF name = "grey" THEN j \div 3
    ELSE IF name = "inverse" THEN (256 - j \div 3) % 256
    ELSE IF j % 3 = 0 THEN 255 - j \div 3
    ELSE IF j % 3 = 1 THEN j \div 3
    ELSE ((j \div 3) * 7) % 256

\* an extraction that takes the pixels of a byte least significant bits first
PaletteIndexLsbFirst(pixels, bpp, x) ==
    IF bpp = 8 THEN pixels[x + 1]
    ELSE IF bpp = 4
    THEN (pixels[x \div 2 + 1] \div 2^(IF x % 2 = 0 THEN 0 ELSE 4)) % 16
    ELSE IF bpp = 2
    THEN (pixels[x \div 4 + 1] \div 2^((x % 4) * 2)) % 4
    ELSE (pixels[x \div 8 + 1] \div 2^(x % 8)) % 2

\* the palette index of column x; pixels is the scanline, pixels[i + 1] being
\* the byte pixels[i] of the sketch; >> n is \div 2^n and & mask is % (mask+1)
PaletteIndex(pixels, bpp, x) ==
    IF bpp = 8 THEN pixels[x + 1]
    ELSE IF bpp = 4
    THEN (pixels[x \div 2 + 1] \div 2^(IF x % 2 = 0 THEN 4 ELSE 0)) % 16
    ELSE IF bpp = 2
    THEN (pixels[x \div 4 + 1] \div 2^(6 - (x % 4) * 2)) % 4
    ELSE (pixels[x \div 8 + 1] \div 2^(7 - (x % 8))) % 2

\* uint8_t brightness = (r * 299 + g * 587 + b * 114) / 1000
Brightness(r, g, b) == ((r * 299 + g * 587 + b * 114) \div 1000) % 256

\* the colour drawn for a palette index; "null" stands for palette == nullptr
PixelColor(palette, paletteIndex) ==
    IF palette # "null" /\ paletteIndex < 256
    THEN LET r == Palette(palette, paletteIndex * 3)
             g == Palette(palette, paletteIndex * 3 + 1)
             b == Palette(palette, paletteIndex * 3 + 2)
         IN  IF Brightness(r, g, b) > 127 THEN "GxEPD_WHITE"
             ELSE "GxEPD_BLACK"
    ELSE "GxEPD_WHITE"

\* a callback that draws every column of the scanline
DrawnColumnsUnclipped(width, y) == 0..(width - 1)

\* the columns of line y for which the callback calls display.drawPixel
DrawnColumns(width, y) ==
    {x \in 0..(width - 1) :
        x < DISPLAY_WIDTH /\ (y < DISPLAY_HEIGHT /\ x < DISPLAY_WIDTH)}

\* what pngDrawCallback returns: 0 (stop decoding), before it has drawn
\* anything, when the scanline is not indexed, and 1 after its loop otherwise
CallbackReturn(iPixelType) ==
    IF iPixelType # "PNG_PIXEL_INDEXED" THEN 0 ELSE 1

\* pngDrawCallback: what it returns and the pixels it draws on line pDraw.y
pngDrawCallback(pDraw) ==
    IF CallbackReturn(pDraw.iPixelType) = 0
    THEN [ret |-> 0, drawn |-> <<>>]
    ELSE [ret |-> 1,
          drawn |-> [x \in DrawnColumns(pDraw.iWidth, pDraw.y) |->
                        PixelColor(pDraw.pPalette,
                                   PaletteIndex(pDraw.pPixels, pDraw.iBpp, x))]]

\* a scanline of n bytes, all 10100101
Scanline(n) == [i \in 1..n |-> 165]

\* pDraw->iPixelType of the three kinds of downloaded bytes
PixelType(kind) ==
    IF kind = "indexed" THEN "PNG_PIXEL_INDEXED" ELSE "PNG_PIXEL_TRUECOLOR"

\* no decode has been made
NoImage == [kind |-> "none", callbacks |-> 0, drew |-> FALSE]

\* a decode that goes through all the scanlines whatever the callback returns
DecodeOutcomeNoAbort(kind) ==
    [kind |-> kind, callbacks |-> DISPLAY_HEIGHT, drew |-> TRUE]

\* decodePNG on the downloaded bytes: the number of scanlines png.decode
\* gives to the callback and whether a pixel is drawn.  png.openRAM refuses
\* corrupt bytes; png.decode stops when the callback returns 0 and goes
\* through the DISPLAY_HEIGHT lines of a dashboard image otherwise.
DecodeOutcome(kind) ==
    IF kind = "corrupt" THEN [kind |-> kind, callbacks |-> 0, drew |-> FALSE]
    ELSE IF CallbackReturn(PixelType(kind)) = 0
    THEN [kind |-> kind, callbacks |-> 1, drew |-> FALSE]
    ELSE [kind |-> kind, callbacks |-> DISPLAY_HEIGHT, drew |-> TRUE]

\* the per-cycle record kept for the properties
NewCycle(from) ==
    [wokeFrom |-> from, pressRefresh |-> FALSE, pressSlide |-> FALSE,
     refreshCalls |-> 0, fetched |-> FALSE, gate |-> "none", gateTime |-> -1,
     readTime |-> -1, mainRefresh |-> FALSE, ticked |-> FALSE,
     render |-> "none", syncAttempted |-> FALSE, sync |-> NoSync,
     timerErr |-> FALSE, extraDelay |-> FALSE, image |-> NoImage]

NoDownload == [contentLength |-> 0, bytesRead |-> 0, connOpen |-> FALSE,
               available |-> 0, stall |-> 0, httpCode |-> 0,
               result |-> "none", allocated |-> FALSE, chunks |-> 0]

NoRefresh == [usePartial |-> FALSE, attempt |-> 0, ret |-> "none",
              result |-> FALSE, panelBefore |-> Content("unknown"),
              wasConnected |-> FALSE, connectCalled |-> FALSE,
              fetchOk |-> FALSE, decode |-> "none"]

\* values every reset gives to the globals and statics in ordinary RAM
ResetRam ==
    /\ refreshButtonPressed' = FALSE
    /\ slideButtonPressed' = FALSE
    /\ lastRefreshState' = HIGH
    /\ lastSlideState' = HIGH
    /\ pngBuffer' = "null"
    /\ pngBufferSize' = 0
    /\ heapBlocks' = 0
    /\ dl' = NoDownload
    /\ rd' = NoRefresh
    /\ firstCall' = TRUE
    /\ panelInit' = FALSE
    /\ wifi' = "off"

\* no function is being applied on its own
NoCall == [fn |-> "none", in |-> <<>>, done |-> TRUE, out |-> <<>>]

InitProgram ==
    /\ pc = "setup"
    /\ mode = "awake"
    /\ bootCount = 0
    /\ timeInitialized = FALSE
    /\ displayInitialized = FALSE
    /\ lastWakeTime = 0
    /\ refreshButtonPressed = FALSE
    /\ slideButtonPressed = FALSE
    /\ lastRefreshState = HIGH
    /\ lastSlideState = HIGH
    /\ wifi = "off"
    /\ clockValid = FALSE
    /\ now = 0
    /\ pngBuffer = "null"
    /\ pngBufferSize = 0
    /\ heapBlocks = 0
    /\ dl = NoDownload
    /\ rd = NoRefresh
    /\ panelInit = FALSE
    /\ panel = Content("unknown")
    /\ firstCall = TRUE
    /\ armed = {}
    /\ sleepSeconds = 0
    /\ sleepMs = 0
    /\ wakeCause = "undefined"
    /\ cyc = NewCycle("cold")
    /\ wakes = 0

Init == InitProgram /\ call = NoCall

\* ------------------------------------------------------------------ setup

\* syncTimeWithNTP: the polling loop.  validAt is the number of the first
\* getLocalTime() call that finds a valid time (0 = none does); k counts the
\* calls, retries is the local of the same name.
RECURSIVE SyncLoop(_, _, _)
SyncLoop(k, retries, validAt) ==
    LET got == validAt # 0 /\ k >= validAt
    IN  IF ~got /\ retries > 0
        THEN SyncLoop(k + 1, retries - 1, validAt)
        ELSE [retries |-> retries, polls |-> k, gotTime |-> got]

syncTimeWithNTP(validAt) == SyncLoop(1, SYNC_RETRIES, validAt).retries > 0

\* setup(): bootCount++, initializeHardware(), prepareFirstBoot(),
\* ensureTimeSync()
Setup ==
    /\ pc = "setup"
    /\ mode = "awake"
    /\ bootCount' = bootCount + 1
    /\ panelInit' = TRUE
    /\ IF ~timeInitialized
       THEN \E connectOK \in BOOLEAN :
              IF connectOK
              THEN \E validAt \in 0..(SYNC_RETRIES + 1), t \in StartTimes :
                     /\ clockValid => validAt = 1
                     /\ LET r == SyncLoop(1, SYNC_RETRIES, validAt)
                        IN  /\ clockValid' = (clockValid \/ r.gotTime)
                            /\ now' = IF clockValid \/ ~r.gotTime THEN now ELSE t
                            /\ cyc' = [cyc EXCEPT !.syncAttempted = TRUE,
                                         !.sync = [called |-> TRUE,
                                                   polls |-> r.polls,
                                                   gotTime |-> r.gotTime,
                                                   result |-> syncTimeWithNTP(validAt)]]
                     /\ wifi' = "connected"
                     /\ timeInitialized' = TRUE
                     /\ panel' = showBootStatus(bootCount', "Syncing time...",
                                                TRUE, panel)
              ELSE /\ wifi' = "on"
                   /\ cyc' = [cyc EXCEPT !.syncAttempted = TRUE]
                   /\ panel' = showBootStatus(bootCount', "Connecting WiFi...",
                                              FALSE, panel)
                   /\ UNCHANGED <<timeInitialized, clkVars>>
       ELSE UNCHANGED <<wifi, timeInitialized, clkVars, cyc, panel>>
    /\ firstCall' = IF ~timeInitialized
                    THEN showBootStatusFirstCall(bootCount', firstCall)
                    ELSE firstCall
    /\ pc' = "loop"
    /\ UNCHANGED <<displayInitialized, lastWakeTime, btnVars, bufVars,
                   dl, rd, slpVars>>
    /\ UNCHANGED call

\* ------------------------------------------------------------------ buttons

\* a loop() that ignores what checkButtonPress returns
AfterDetectedPressNoHandler == "gate"

\* loop(): if (checkButtonPress()) handleButtonPress();
AfterDetectedPress == "handle_refresh"

\* checkButtonPress: one call.  lastR and lastS are the statics
\* lastRefreshState and lastSlideState, refreshState and slideState the levels
\* digitalRead returns (active low), throttled says that less than 50 ms have
\* passed since the last call that read the pins.  The result gives what the
\* call returns, the pending flag it sets and the statics it leaves.
checkButtonPress(lastR, lastS, refreshState, slideState, throttled) ==
    IF throttled
    THEN [ret |-> FALSE, button |-> "none",
          lastRefreshState |-> lastR, lastSlideState |-> lastS]
    ELSE IF lastR = HIGH /\ refreshState = LOW
    THEN [ret |-> TRUE, button |-> "refresh",
          lastRefreshState |-> lastR, lastSlideState |-> lastS]
    ELSE IF lastS = HIGH /\ slideState = LOW
    THEN [ret |-> TRUE, button |-> "slide",
          lastRefreshState |-> lastR, lastSlideState |-> lastS]
    ELSE [ret |-> FALSE, button |-> "none",
          lastRefreshState |-> refreshState, lastSlideState |-> slideState]

\* loop(), first part: checkButtonPress().  The 50 ms throttle of
\* checkButtonPress never triggers here: every pass of loop() lies more than
\* 500 ms after the previous one (shutdownWiFi's delay), and the first one more
\* than 1000 ms after millis() = 0 (setup's delay).
CheckButtonPress ==
    /\ pc = "loop"
    /\ mode = "awake"
    /\ \E refreshState \in BOOLEAN, slideState \in BOOLEAN :
         LET r == checkButtonPress(lastRefreshState, lastSlideState,
                                   refreshState, slideState, FALSE)
         IN  /\ refreshButtonPressed' =
                    (refreshButtonPressed \/ r.button = "refresh")
             /\ slideButtonPressed' =
                    (slideButtonPressed \/ r.button = "slide")
             /\ lastRefreshState' = r.lastRefreshState
             /\ lastSlideState' = r.lastSlideState
             /\ cyc' = [cyc EXCEPT
                          !.pressRefresh = @ \/ r.button = "refresh",
                          !.pressSlide = @ \/ r.button = "slide",
                          !.sync = NoSync]
             /\ pc' = IF r.ret THEN AfterDetectedPress ELSE "gate"
    /\ UNCHANGED <<rtcVars, wifi, clkVars, bufVars, dl, rd, dispVars,
                   slpVars>>
    /\ UNCHANGED call

\* a handleButtonPress that refreshes on either pending flag
ButtonCallsRefreshAny == refreshButtonPressed \/ slideButtonPressed

\* handleButtonPress: which pending flag makes it call refreshDashboard
ButtonCallsRefresh == refreshButtonPressed

\* handleButtonPress, first if: up to the call of refreshDashboard
HandleRefreshPress ==
    /\ pc = "handle_refresh"
    /\ IF ButtonCallsRefresh
       THEN /\ panel' = showBootStatus(bootCount, "Manual refresh...", TRUE,
                                       panel)
            /\ firstCall' = showBootStatusFirstCall(bootCount, firstCall)
            /\ rd' = [NoRefresh EXCEPT !.ret = "button"]
            /\ pc' = "rd_start"
       ELSE /\ pc' = "handle_slide"
            /\ UNCHANGED <<panel, firstCall, rd>>
    /\ UNCHANGED <<rtcVars, btnVars, wifi, clkVars, bufVars, dl,
                   panelInit, slpVars, cyc>>
    /\ UNCHANGED call

\* handleButtonPress, first if: after refreshDashboard has returned
HandleRefreshReturn ==
    /\ pc = "button_ret"
    /\ panel' = IF rd.result THEN panel
                ELSE showBootStatus(bootCount, "Manual refresh...", FALSE,
                                    panel)
    /\ firstCall' = IF rd.result THEN firstCall
                    ELSE showBootStatusFirstCall(bootCount, firstCall)
    /\ refreshButtonPressed' = FALSE
    /\ rd' = NoRefresh
    /\ pc' = "handle_slide"
    /\ UNCHANGED <<rtcVars, slideButtonPressed, lastRefreshState,
                   lastSlideState, wifi, clkVars, bufVars, dl, panelInit,
                   slpVars, cyc>>
    /\ UNCHANGED call

\* handleButtonPress, second if
HandleSlidePress ==
    /\ pc = "handle_slide"
    /\ IF slideButtonPressed
       THEN /\ panel' = showBootStatus(bootCount, "Slide change...", TRUE,
                                       panel)
            /\ firstCall' = showBootStatusFirstCall(bootCount, firstCall)
            /\ slideButtonPressed' = FALSE
       ELSE UNCHANGED <<panel, firstCall, slideButtonPressed>>
    /\ pc' = "gate"
    /\ UNCHANGED <<rtcVars, refreshButtonPressed, lastRefreshState,
                   lastSlideState, wifi, clkVars, bufVars, dl, rd,
                   panelInit, slpVars, cyc>>
    /\ UNCHANGED call

\* ------------------------------------------------------- refreshDashboard

ReturnPc(ret) == IF ret = "button" THEN "button_ret" ELSE "main_ret"

\* refreshDashboard, up to the first pass of its for loop
RefreshDashboardStart ==
    /\ pc = "rd_start"
    /\ rd' = [rd EXCEPT !.usePartial = displayInitialized, !.attempt = 1,
                        !.result = FALSE, !.panelBefore = panel]
    /\ panel' = showBootStatus(bootCount, "Loading dashboard...", TRUE, panel)
    /\ firstCall' = showBootStatusFirstCall(bootCount, firstCall)
    /\ cyc' = [cyc EXCEPT !.refreshCalls = @ + 1]
    /\ pc' = "rd_attempt"
    /\ UNCHANGED <<rtcVars, btnVars, wifi, clkVars, bufVars, dl,
                   panelInit, slpVars>>
    /\ UNCHANGED call

\* the access point may go away while the radio is on
EnvWifiDrop ==
    /\ pc = "rd_attempt"
    /\ wifi = "connected"
    /\ wifi' = "on"
    /\ UNCHANGED <<pc, rtcVars, btnVars, clkVars, bufVars, dl, rd,
                   dispVars, slpVars, cyc>>
    /\ UNCHANGED call

\* a pass of the loop that calls connectWiFi whatever the status is
ConnectCalledAlways(statusConnected) == TRUE

\* the right operand of || is evaluated only when the left one is false
ConnectCalled(statusConnected) == ~statusConnected

\* one pass of the for loop, up to the call of downloadPNG:
\* wifiConnected = (WiFi.status() == WL_CONNECTED) || connectWiFi()
RefreshAttempt ==
    /\ pc = "rd_attempt"
    /\ \E connectOK \in BOOLEAN :
         LET statusConnected == wifi = "connected"
             called == ConnectCalled(statusConnected)
             wifiConnected == statusConnected \/ (called /\ connectOK)
         IN  /\ ~called => connectOK
             /\ wifi' = IF ~called THEN wifi
                        ELSE IF connectOK THEN "connected" ELSE "on"
             /\ rd' = [rd EXCEPT !.wasConnected = statusConnected,
                                 !.connectCalled = called]
             /\ pc' = IF wifiConnected THEN "dl_get" ELSE "rd_fail"
    /\ UNCHANGED <<rtcVars, btnVars, clkVars, bufVars, dl,
                   dispVars, slpVars, cyc>>
    /\ UNCHANGED call

\* a pass of the for loop has failed: next pass, or give up after the second
RefreshAttemptFailed ==
    /\ pc = "rd_fail"
    /\ IF rd.attempt < 2
       THEN /\ rd' = [rd EXCEPT !.attempt = @ + 1]
            /\ pc' = "rd_attempt"
            /\ UNCHANGED <<panel, firstCall>>
       ELSE /\ panel' = showBootStatus(bootCount, "Loading dashboard...",
                                       FALSE, panel)
            /\ firstCall' = showBootStatusFirstCall(bootCount, firstCall)
            /\ rd' = [rd EXCEPT !.result = FALSE]
            /\ pc' = ReturnPc(rd.ret)
    /\ dl' = NoDownload
    /\ UNCHANGED <<rtcVars, btnVars, wifi, clkVars, bufVars, panelInit,
                   slpVars, cyc>>
    /\ UNCHANGED call

\* ------------------------------------------------------------ downloadPNG

\* a validation that lets a declared length of 0 through
ContentLengthInvalidNegative(n) == n < 0 \/ n > MAX_CONTENT_LENGTH

\* the validation of the declared content length
ContentLengthInvalid(n) == n <= 0 \/ n > MAX_CONTENT_LENGTH

\* a final test that accepts a short body
DownloadIncompleteOverrun(bytesRead, contentLength) == bytesRead > contentLength

\* the final test of downloadPNG
DownloadIncomplete(bytesRead, contentLength) == bytesRead # contentLength

\* size_t toRead = min(available, contentLength - bytesRead)
ToRead(available, contentLength, bytesRead) ==
    Min(available, contentLength - bytesRead)

\* http.connected(): the connection is open or received bytes are pending
HttpConnected == dl.connOpen \/ dl.available > 0

\* downloadPNG up to its read loop: GET, validation, malloc
DownloadBegin ==
    /\ pc = "dl_get"
    /\ \E code \in HttpCodes, n \in Lengths, mallocOK \in BOOLEAN :
         /\ code # HTTP_CODE_OK => (n = -1 /\ mallocOK)
         /\ (code = HTTP_CODE_OK /\ ContentLengthInvalid(n)) => mallocOK
         /\ IF code # HTTP_CODE_OK
            THEN /\ dl' = [NoDownload EXCEPT !.httpCode = code,
                              !.result = "fail"]
                 /\ pc' = "rd_fail"
                 /\ UNCHANGED bufVars
            ELSE IF ContentLengthInvalid(n)
            THEN /\ dl' = [NoDownload EXCEPT !.httpCode = code,
                              !.contentLength = n, !.result = "fail"]
                 /\ pc' = "rd_fail"
                 /\ UNCHANGED bufVars
            ELSE IF ~mallocOK
            THEN /\ dl' = [NoDownload EXCEPT !.httpCode = code,
                              !.contentLength = n, !.result = "fail"]
                 /\ pngBuffer' = "null"
                 /\ pc' = "rd_fail"
                 /\ UNCHANGED <<pngBufferSize, heapBlocks>>
            ELSE /\ dl' = [NoDownload EXCEPT !.httpCode = code,
                              !.contentLength = n, !.connOpen = TRUE,
                              !.allocated = TRUE, !.result = "reading"]
                 /\ pngBuffer' = "buf"
                 /\ heapBlocks' = heapBlocks + 1
                 /\ pngBufferSize' = n
                 /\ pc' = "dl_read"
    /\ cyc' = [cyc EXCEPT !.fetched = TRUE]
    /\ UNCHANGED <<rtcVars, btnVars, wifi, clkVars, rd, dispVars, slpVars>>
    /\ UNCHANGED call

\* the server delivers a piece of the body: one byte, all that is missing,
\* or one byte more than was declared
EnvDataArrives ==
    /\ pc = "dl_read"
    /\ dl.connOpen
    /\ dl.chunks < MaxChunks
    /\ LET missing == dl.contentLength - dl.bytesRead - dl.available
       IN  \E k \in {1, missing, missing + 1} :
             /\ k >= 1
             /\ k <= missing + 1
             /\ dl' = [dl EXCEPT !.available = @ + k, !.chunks = @ + 1]
    /\ UNCHANGED <<pc, rtcVars, btnVars, wifi, clkVars, bufVars, rd,
                   dispVars, slpVars, cyc>>
    /\ UNCHANGED call

\* the server or the network closes the connection
EnvConnectionDrop ==
    /\ pc = "dl_read"
    /\ dl.connOpen
    /\ dl' = [dl EXCEPT !.connOpen = FALSE]
    /\ UNCHANGED <<pc, rtcVars, btnVars, wifi, clkVars, bufVars, rd,
                   dispVars, slpVars, cyc>>
    /\ UNCHANGED call

\* one pass of the read loop.  A pass that finds no byte available changes
\* nothing but the time spent waiting (delay(1)), which stall counts up to
\* MaxStall; the loop has no test on it.
DownloadReadStep ==
    /\ pc = "dl_read"
    /\ HttpConnected /\ dl.bytesRead < dl.contentLength
    /\ IF dl.available > 0
       THEN LET toRead == ToRead(dl.available, dl.contentLength, dl.bytesRead)
            IN  dl' = [dl EXCEPT !.bytesRead = @ + toRead,
                                 !.available = @ - toRead, !.stall = 0]
       ELSE dl' = [dl EXCEPT !.stall = Min(@ + 1, MaxStall)]
    /\ UNCHANGED <<pc, rtcVars, btnVars, wifi, clkVars, bufVars, rd,
                   dispVars, slpVars, cyc>>
    /\ UNCHANGED call

\* the read loop has ended: http.end() and the final test
DownloadEnd ==
    /\ pc = "dl_read"
    /\ ~(HttpConnected /\ dl.bytesRead < dl.contentLength)
    /\ IF DownloadIncomplete(dl.bytesRead, dl.contentLength)
       THEN /\ heapBlocks' = heapBlocks - 1
            /\ pngBuffer' = "null"
            /\ pngBufferSize' = 0
            /\ dl' = [dl EXCEPT !.result = "fail", !.connOpen = FALSE]
            /\ pc' = "rd_fail"
            /\ UNCHANGED rd
       ELSE /\ dl' = [dl EXCEPT !.result = "ok", !.connOpen = FALSE]
            /\ rd' = [rd EXCEPT !.fetchOk = TRUE]
            /\ pc' = "update"
            /\ UNCHANGED bufVars
    /\ UNCHANGED <<rtcVars, btnVars, wifi, clkVars, dispVars,
                   slpVars, cyc>>
    /\ UNCHANGED call

\* ---------------------------------------------------------- updateDisplay

\* the page buffer as display.firstPage() leaves it
PageAfterFirstPage == Content("white")

\* what the page loop of updateDisplay leaves on the panel: fillScreen(WHITE)
\* unless this is boot 1, then the pixels decodePNG draws, then nextPage()
\* writes the page to the panel.  decodePNG draws nothing when openRAM fails
\* or when the first scanline is not indexed; updateDisplay does not look at
\* what decodePNG did.
PanelAfterUpdate(bc, kind, p) ==
    IF DecodeOutcome(kind).drew THEN Content("image")
    ELSE IF bc # 1 THEN Content("white") ELSE PageAfterFirstPage

\* an updateDisplay that frees the buffer only after a good decode
BufferAfterUpdateLeak(kind) == IF kind = "indexed" THEN "null" ELSE "buf"

\* free(pngBuffer); pngBuffer = nullptr; pngBufferSize = 0
BufferAfterUpdate(kind) == "null"

\* updateDisplay(usePartial) and the return of refreshDashboard; kind is what
\* png.openRAM and the draw callback make of the downloaded bytes
UpdateDisplay ==
    /\ pc = "update"
    /\ IF pngBuffer = "null" \/ pngBufferSize = 0
       THEN /\ rd' = [rd EXCEPT !.result = TRUE]
            /\ UNCHANGED <<bufVars, panel, cyc>>
       ELSE \E kind \in ImageKinds :
              /\ rd' = [rd EXCEPT !.result = TRUE,
                                  !.decode = IF kind = "indexed" THEN "ok"
                                             ELSE "failed"]
              /\ panel' = PanelAfterUpdate(bootCount, kind, panel)
              /\ pngBuffer' = BufferAfterUpdate(kind)
              /\ heapBlocks' = IF pngBuffer' = "null" THEN heapBlocks - 1
                               ELSE heapBlocks
              /\ pngBufferSize' = IF pngBuffer' = "null" THEN 0
                                  ELSE pngBufferSize
              /\ cyc' = [cyc EXCEPT !.render = IF rd.usePartial THEN "partial"
                                                ELSE "full",
                                    !.image = DecodeOutcome(kind)]
    /\ dl' = NoDownload
    /\ pc' = ReturnPc(rd.ret)
    /\ UNCHANGED <<rtcVars, btnVars, wifi, clkVars, panelInit, firstCall,
                   slpVars>>
    /\ UNCHANGED call

\* ------------------------------------------------------ the deep-sleep gate

\* a gate that tests the hour left in timeinfo when getLocalTime has failed
shouldEnterDeepSleepStaleHour(timeRead, hour) == isDeepSleepTime(hour)

\* shouldEnterDeepSleep(): timeRead is what getLocalTime returns, hour the
\* tm_hour it has filled in
shouldEnterDeepSleep(timeRead, hour) ==
    IF timeRead THEN isDeepSleepTime(hour) ELSE FALSE

\* loop(): shouldEnterDeepSleep(); when it is false, the call of
\* refreshDashboard
ShouldEnterDeepSleep ==
    /\ pc = "gate"
    /\ IF shouldEnterDeepSleep(clockValid, Hour(now))
       THEN /\ cyc' = [cyc EXCEPT !.gate = "true", !.gateTime = now]
            /\ pc' = "gate_true"
            /\ UNCHANGED rd
       ELSE /\ cyc' = [cyc EXCEPT !.gate = "false", !.mainRefresh = TRUE,
                          !.gateTime = IF clockValid THEN now ELSE -1]
            /\ rd' = [NoRefresh EXCEPT !.ret = "main"]
            /\ pc' = "rd_start"
    /\ UNCHANGED <<rtcVars, btnVars, wifi, clkVars, bufVars, dl,
                   dispVars, slpVars>>
    /\ UNCHANGED call

\* the wall clock passes a minute boundary between the gate's getLocalTime and
\* the getLocalTime of loop()
EnvMinuteTick ==
    /\ pc = "gate_true"
    /\ clockValid
    /\ ~cyc.ticked
    /\ now' = (now + 1) % MinutesPerDay
    /\ cyc' = [cyc EXCEPT !.ticked = TRUE]
    /\ UNCHANGED <<pc, rtcVars, btnVars, wifi, clockValid, bufVars,
                   dl, rd, dispVars, slpVars>>
    /\ UNCHANGED call

\* an enterDeepSleep that leaves the RTC flags as they are
enterDeepSleepFlagKept(flag) == flag

\* enterDeepSleep: displayInitialized = false; timeInitialized = false
enterDeepSleepFlag(flag) == FALSE

\* the wake sources a sleep is entered with: all disabled, then the timer
\* (when esp_sleep_enable_timer_wakeup accepts it) and the two buttons
ArmedSources(timerOK) ==
    (IF timerOK THEN {"timer"} ELSE {}) \cup {"ext0", "ext1"}

\* loop(): the gate was true; second getLocalTime, getSecondsUntil5AM and
\* enterDeepSleep, or (time not readable) the call of refreshDashboard
EnterDeepSleep ==
    /\ pc = "gate_true"
    /\ IF clockValid
       THEN /\ sleepSeconds' = getSecondsUntil5AM(Hour(now), Minute(now))
            /\ wifi' = shutdownWiFi(wifi)
            /\ displayInitialized' = enterDeepSleepFlag(displayInitialized)
            /\ timeInitialized' = enterDeepSleepFlag(timeInitialized)
            /\ \E timerOK \in BOOLEAN :
                 /\ armed' = ArmedSources(timerOK)
                 /\ cyc' = [cyc EXCEPT !.readTime = now,
                                       !.timerErr = ~timerOK]
            /\ mode' = "deep"
            /\ pc' = "asleep"
            /\ UNCHANGED rd
       ELSE /\ cyc' = [cyc EXCEPT !.mainRefresh = TRUE]
            /\ rd' = [NoRefresh EXCEPT !.ret = "main"]
            /\ pc' = "rd_start"
            /\ UNCHANGED <<sleepSeconds, wifi, displayInitialized,
                           timeInitialized, armed, mode>>
    /\ UNCHANGED <<bootCount, lastWakeTime, btnVars, clkVars, bufVars,
                   dl, dispVars, sleepMs, wakeCause, wakes>>
    /\ UNCHANGED call

\* ------------------------------------------------------------- light sleep

\* a light-sleep timer that is shortened after a failed refresh
LightSleepTimerMsRetrySooner ==
    IF rd.result THEN REFRESH_INTERVAL ELSE REFRESH_INTERVAL \div 10

\* esp_sleep_enable_timer_wakeup(REFRESH_INTERVAL * 1000ULL), in milliseconds
LightSleepTimerMs == REFRESH_INTERVAL

\* ESP.restart(): a software reset; RTC_DATA_ATTR variables are
\* re-initialised, the wall clock keeps running
Restart ==
    /\ wakes < MaxWakes
    /\ wakes' = wakes + 1
    /\ bootCount' = 0
    /\ timeInitialized' = FALSE
    /\ displayInitialized' = FALSE
    /\ lastWakeTime' = 0
    /\ ResetRam
    /\ mode' = "awake"
    /\ wakeCause' = "undefined"
    /\ cyc' = NewCycle("restart")
    /\ pc' = "setup"

\* loop(): if (!success && bootCount == 1) delay(5000)
FirstBootRetryDelay == ~rd.result /\ bootCount = 1

\* loop() after refreshDashboard has returned: enterLightSleep() up to the
\* suspend, or the restart when the timer cannot be armed or the sleep fails
EnterLightSleep ==
    /\ pc = "main_ret"
    /\ \E timerOK \in BOOLEAN, sleepOK \in BOOLEAN :
         /\ ~timerOK => sleepOK
         /\ IF timerOK /\ sleepOK
            THEN /\ wifi' = shutdownWiFi(wifi)
                 /\ armed' = ArmedSources(TRUE)
                 /\ sleepMs' = LightSleepTimerMs
                 /\ mode' = "light"
                 /\ pc' = "asleep"
                 /\ rd' = NoRefresh
                 /\ cyc' = [cyc EXCEPT !.extraDelay = FirstBootRetryDelay]
                 /\ UNCHANGED <<rtcVars, btnVars, bufVars, dl, panelInit,
                                firstCall, wakeCause, wakes>>
            ELSE /\ Restart
                 /\ armed' = {}
                 /\ sleepMs' = 0
    /\ UNCHANGED <<clkVars, panel, sleepSeconds>>
    /\ UNCHANGED call

\* ------------------------------------------------------------------- wakes

\* a light sleep whose wake resets the chip as a deep sleep's does
AfterLightSleepReset == "setup"

\* where the sketch goes on after esp_light_sleep_start has returned ESP_OK:
\* display.refresh(), enterLightSleep returns, loop() returns and is called
\* again
AfterLightSleep == "loop"

\* an armed source ends the light sleep
WakeFromLightSleep ==
    /\ mode = "light"
    /\ wakes < MaxWakes
    /\ \E cause \in armed :
         /\ wakeCause' = cause
         /\ now' = IF cause = "timer" /\ clockValid
                   THEN (now + sleepMs \div 60000) % MinutesPerDay ELSE now
    /\ mode' = "awake"
    /\ wakes' = wakes + 1
    /\ cyc' = NewCycle("light")
    /\ pc' = AfterLightSleep
    /\ armed' = {}
    /\ sleepMs' = 0
    /\ UNCHANGED <<rtcVars, btnVars, wifi, clockValid, bufVars, dl, rd,
                   dispVars, sleepSeconds>>
    /\ UNCHANGED call

\* an armed source ends the deep sleep: the chip resets and runs setup()
WakeFromDeepSleep ==
    /\ mode = "deep"
    /\ wakes < MaxWakes
    /\ \E cause \in armed :
         /\ wakeCause' = cause
         /\ now' = IF cause = "timer"
                   THEN (now + sleepSeconds \div 60) % MinutesPerDay ELSE now
    /\ ResetRam
    /\ mode' = "awake"
    /\ wakes' = wakes + 1
    /\ cyc' = NewCycle("deep")
    /\ pc' = "setup"
    /\ armed' = {}
    /\ sleepSeconds' = 0
    /\ UNCHANGED <<rtcVars, clockValid, panel, sleepMs>>
    /\ UNCHANGED call

\* ----------------------------------------------------------- specification

Next ==
    \/ Setup
    \/ CheckButtonPress
    \/ HandleRefreshPress
    \/ HandleRefreshReturn
    \/ HandleSlidePress
    \/ ShouldEnterDeepSleep
    \/ EnvMinuteTick
    \/ EnterDeepSleep
    \/ RefreshDashboardStart
    \/ EnvWifiDrop
    \/ RefreshAttempt
    \/ RefreshAttemptFailed
    \/ DownloadBegin
    \/ EnvDataArrives
    \/ EnvConnectionDrop
    \/ DownloadReadStep
    \/ DownloadEnd
    \/ UpdateDisplay
    \/ EnterLightSleep
    \/ WakeFromLightSleep
    \/ WakeFromDeepSleep

Spec == Init /\ [][Next]_vars

\* the steps of the sketch itself; the processor always takes its next step,
\* nothing obliges the environment to act
Program ==
    \/ Setup
    \/ CheckButtonPress
    \/ HandleRefreshPress
    \/ HandleRefreshReturn
    \/ HandleSlidePress
    \/ ShouldEnterDeepSleep
    \/ EnterDeepSleep
    \/ RefreshDashboardStart
    \/ RefreshAttempt
    \/ RefreshAttemptFailed
    \/ DownloadBegin
    \/ DownloadReadStep
    \/ DownloadEnd
    \/ UpdateDisplay
    \/ EnterLightSleep

FairSpec == Spec /\ WF_vars(Program)

\* ------------------------------------------- functions applied on their own

\* hours and minutes of the day
Hours == 0..23
Minutes == 0..59
\* the hours a window may be configured with
WindowHours == 0..24

\* the inputs of isDeepSleepTime: an hour and a configured window
InitIsDeepSleepTime ==
    \E h \in Hours, start \in WindowHours, end \in WindowHours :
        /\ start < end
        /\ call = [fn |-> "isDeepSleepTime", done |-> FALSE, out |-> <<>>,
                   in |-> [hour |-> h, start |-> start, end |-> end]]

CallIsDeepSleepTime ==
    /\ call.fn = "isDeepSleepTime"
    /\ ~call.done
    /\ call' = [call EXCEPT !.done = TRUE,
                            !.out = isDeepSleepTimeIn(call.in.hour,
                                                      call.in.start,
                                                      call.in.end)]
    /\ UNCHANGED progVars

\* the inputs of getSecondsUntil5AM: a time of day
InitGetSecondsUntil5AM ==
    \E h \in Hours, m \in Minutes :
        call = [fn |-> "getSecondsUntil5AM", done |-> FALSE, out |-> <<>>,
                in |-> [hour |-> h, minute |-> m]]

\* getSecondsUntil5AM for the time given and for the minute that follows it
CallGetSecondsUntil5AM ==
    /\ call.fn = "getSecondsUntil5AM"
    /\ ~call.done
    /\ LET t == (call.in.hour * 60 + call.in.minute + 1) % MinutesPerDay
       IN  call' = [call EXCEPT !.done = TRUE,
                      !.out = [seconds |-> getSecondsUntil5AM(call.in.hour,
                                                              call.in.minute),
                               nextMinute |-> t,
                               secondsNext |-> getSecondsUntil5AM(Hour(t),
                                                                  Minute(t))]]
    /\ UNCHANGED progVars

\* bytes a scanline is made of: 00 01 10 11 and its mirror image, the two
\* grey levels on either side of the threshold, all zeros, all ones
ScanlineBytes == {0, 27, 127, 128, 228, 255}
BitDepths == {1, 2, 4, 8}

\* the inputs of pngDrawCallback for the colours: a scanline of two bytes at
\* each bit depth, its last pixel used or not, with each palette
InitPngDrawCallback ==
    \E bpp \in BitDepths, b1 \in ScanlineBytes, b2 \in ScanlineBytes,
       palette \in {"grey", "tint", "inverse"}, cut \in {0, 1} :
        call = [fn |-> "pngDrawCallback", done |-> FALSE, out |-> <<>>,
                in |-> [y |-> 0, iWidth |-> 16 \div bpp - cut,
                        iPixelType |-> "PNG_PIXEL_INDEXED",
                        pPixels |-> <<b1, b2>>, pPalette |-> palette,
                        iBpp |-> bpp]]

CallPngDrawCallback ==
    /\ call.fn = "pngDrawCallback"
    /\ ~call.done
    /\ call' = [call EXCEPT !.done = TRUE, !.out = pngDrawCallback(call.in)]
    /\ UNCHANGED progVars

\* declared sizes of a bitmap: one pixel, and one less than, equal to and one
\* more than the panel's
BitmapWidths == {1, DISPLAY_WIDTH - 1, DISPLAY_WIDTH, DISPLAY_WIDTH + 1}
BitmapHeights == {1, DISPLAY_HEIGHT - 1, DISPLAY_HEIGHT, DISPLAY_HEIGHT + 1}

\* the inputs of png.decode: a bitmap of one bit per pixel that openRAM has
\* accepted, of a given pixel type and size
InitDecode ==
    \E type \in {"PNG_PIXEL_INDEXED", "PNG_PIXEL_TRUECOLOR"},
       width \in BitmapWidths, height \in BitmapHeights :
        call = [fn |-> "decode", done |-> FALSE,
                in |-> [iPixelType |-> type, width |-> width,
                        height |-> height],
                out |-> [renderLine |-> 0, y |-> -1, ret |-> 1,
                         columns |-> {}]]

\* png.decode gives the next scanline to the callback
DecodeLine ==
    /\ call.fn = "decode"
    /\ ~call.done
    /\ call.out.ret = 1
    /\ call.out.y + 1 < call.in.height
    /\ LET y == call.out.y + 1
           r == pngDrawCallback([y |-> y, iWidth |-> call.in.width,
                      iPixelType |-> call.in.iPixelType,
                      pPixels |-> Scanline((call.in.width + 7) \div 8),
                      pPalette |-> "grey", iBpp |-> 1])
       IN  call' = [call EXCEPT !.out =
                      [renderLine |-> IF r.ret = 1 THEN @.renderLine + 1
                                      ELSE @.renderLine,
                       y |-> y, ret |-> r.ret, columns |-> DOMAIN r.drawn]]
    /\ UNCHANGED progVars

\* png.decode returns: every scanline has been given to the callback, or the
\* callback has returned 0
DecodeEnd ==
    /\ call.fn = "decode"
    /\ ~call.done
    /\ call.out.ret = 0 \/ call.out.y + 1 >= call.in.height
    /\ call' = [call EXCEPT !.done = TRUE]
    /\ UNCHANGED progVars

\* a free that takes a block off the heap whatever the pointer is
FreeUnchecked(ptr, blocks) == blocks - 1

\* free(ptr): the blocks left on the heap; free(nullptr) does nothing
Free(ptr, blocks) == IF ptr = "null" THEN blocks ELSE blocks - 1

\* what updateDisplay does to the buffer b = [pngBuffer, pngBufferSize,
\* heapBlocks]: nothing when there is no image data, else free and reset
updateDisplayRelease(b) ==
    IF b.pngBuffer = "null" \/ b.pngBufferSize = 0 THEN b
    ELSE [pngBuffer |-> BufferAfterUpdate("indexed"), pngBufferSize |-> 0,
          heapBlocks |-> Free(b.pngBuffer, b.heapBlocks)]

\* what the end of downloadPNG does to the buffer after an incomplete body:
\* free(pngBuffer); pngBuffer = nullptr; pngBufferSize = 0
downloadIncompleteRelease(b) ==
    [pngBuffer |-> "null", pngBufferSize |-> 0,
     heapBlocks |-> Free(b.pngBuffer, b.heapBlocks)]

ReleasePaths == {"updateDisplay", "downloadPNG"}

\* the inputs of the release paths: a buffer of 150000 bytes held or none,
\* and the two paths to run one after the other
InitRelease ==
    \E held \in BOOLEAN, first \in ReleasePaths, second \in ReleasePaths :
        call = [fn |-> "release", done |-> FALSE,
                in |-> [held |-> held, paths |-> <<first, second>>],
                out |-> [applied |-> 0,
                         b |-> IF held
                               THEN [pngBuffer |-> "buf",
                                     pngBufferSize |-> MAX_CONTENT_LENGTH,
                                     heapBlocks |-> 1]
                               ELSE [pngBuffer |-> "null", pngBufferSize |-> 0,
                                     heapBlocks |-> 0]]]

\* the next of the two release paths is run
CallRelease ==
    /\ call.fn = "release"
    /\ ~call.done
    /\ LET path == call.in.paths[call.out.applied + 1]
           b == IF path = "updateDisplay" THEN updateDisplayRelease(call.out.b)
                ELSE downloadIncompleteRelease(call.out.b)
       IN  call' = [call EXCEPT !.out = [applied |-> @.applied + 1, b |-> b],
                                !.done = (call.out.applied + 1 = 2)]
    /\ UNCHANGED progVars

\* the readings of the battery ADC
MilliVolts == 0..MaxMilliVolts

\* the inputs of getBatteryPercentage, called on its own and from downloadPNG
InitGetBatteryPercentage ==
    \E mv \in MilliVolts, roundsBelow \in BOOLEAN,
       fn \in {"getBatteryPercentage", "downloadPNG"} :
        /\ roundsBelow => (mv * 2 - MIN_VOLTAGE) % 12 = 0
        /\ call = [fn |-> fn, done |-> FALSE, out |-> <<>>,
                   in |-> [mv |-> mv, roundsBelow |-> roundsBelow]]

CallGetBatteryPercentage ==
    /\ call.fn = "getBatteryPercentage"
    /\ ~call.done
    /\ call' = [call EXCEPT !.done = TRUE,
                   !.out = [percent |-> getBatteryPercentage(call.in.mv,
                                            call.in.roundsBelow),
                            enablePin |-> BatteryEnablePinAtReturn]]
    /\ UNCHANGED progVars

\* downloadPNG up to http.begin(url)
CallDownloadPNGUrl ==
    /\ call.fn = "downloadPNG"
    /\ ~call.done
    /\ LET batteryPercent == getBatteryPercentage(call.in.mv,
                                                  call.in.roundsBelow)
       IN  call' = [call EXCEPT !.done = TRUE,
                      !.out = [batteryPercent |-> batteryPercent,
                               url |-> BuildUrl(batteryPercent)]]
    /\ UNCHANGED progVars

\* the inputs of checkButtonPress: for each of a series of calls the levels
\* of the two pins and whether the call comes within 50 ms of the last one
\* that read them; lastCheckTime starts at 0 and setup() alone takes more than
\* a second, so the first call always reads the pins.  The statics start HIGH.
InitCheckButtonPress ==
    \E polls \in [1..MaxPolls -> [refreshState : BOOLEAN, slideState : BOOLEAN,
                                  throttled : BOOLEAN]] :
        /\ ~polls[1].throttled
        /\ call = [fn |-> "checkButtonPress", done |-> FALSE, in |-> polls,
                   out |-> [reports |-> <<>>, lastRefreshState |-> HIGH,
                            lastSlideState |-> HIGH]]

\* the next call of the series
CallCheckButtonPress ==
    /\ call.fn = "checkButtonPress"
    /\ ~call.done
    /\ LET i == Len(call.out.reports) + 1
           r == checkButtonPress(call.out.lastRefreshState,
                                 call.out.lastSlideState,
                                 call.in[i].refreshState,
                                 call.in[i].slideState, call.in[i].throttled)
       IN  call' = [call EXCEPT
                      !.done = (i = MaxPolls),
                      !.out = [reports |-> Append(@.reports, r.button),
                               lastRefreshState |-> r.lastRefreshState,
                               lastSlideState |-> r.lastSlideState]]
    /\ UNCHANGED progVars

\* ------------------------------------------------ the weather service

\* values of process.env.WEATHER_UNITS; "undefined" stands for the variable
\* not being set
WeatherUnitsValues == {"undefined", "metric", "imperial", "standard", "Metric"}

\* fetchData: the units it puts in the request
fetchDataUnits(WEATHER_UNITS) ==
    IF WEATHER_UNITS = "imperial" THEN "imperial" ELSE "metric"

\* mapToDashboard: const isMetric = (process.env.WEATHER_UNITS === 'metric')
isMetric(WEATHER_UNITS) == WEATHER_UNITS = "metric"

\* Math.round of a non-negative number given as num / den
MathRound(num, den) == (2 * num + den) \div (2 * den)

\* no wind speed in the report (null or undefined)
NoSpeed == [null |-> TRUE, v |-> 0]

\* convertedWindSpeed: speed is null or v tenths of the report's unit; the
\* result is null or a whole number
convertedWindSpeed(speed, WEATHER_UNITS) ==
    IF speed.null THEN NoSpeed
    ELSE IF isMetric(WEATHER_UNITS)
    THEN [null |-> FALSE, v |-> MathRound(speed.v * 36, 100)]
    ELSE [null |-> FALSE, v |-> MathRound(speed.v, 10)]

\* the inputs of the weather service: the environment variable and the wind
\* speed the server will report
InitWeather ==
    \E env \in WeatherUnitsValues,
       speed \in {NoSpeed} \cup [null : {FALSE}, v : 0..MaxWindTenths] :
        call = [fn |-> "weatherService", done |-> FALSE,
                in |-> [WEATHER_UNITS |-> env, wind_speed |-> speed],
                out |-> [units |-> "none", wind_speed |-> NoSpeed]]

\* fetchData: the request is made with the units chosen
CallFetchData ==
    /\ call.fn = "weatherService"
    /\ ~call.done
    /\ call.out.units = "none"
    /\ call' = [call EXCEPT
                  !.out.units = fetchDataUnits(call.in.WEATHER_UNITS)]
    /\ UNCHANGED progVars

\* mapToDashboard on what fetchData has returned
CallMapToDashboard ==
    /\ call.fn = "weatherService"
    /\ ~call.done
    /\ call.out.units # "none"
    /\ call' = [call EXCEPT
                  !.done = TRUE,
                  !.out.wind_speed = convertedWindSpeed(call.in.wind_speed,
                                         call.in.WEATHER_UNITS)]
    /\ UNCHANGED progVars

FnInit ==
    /\ InitProgram
    /\ \/ InitIsDeepSleepTime
       \/ InitGetSecondsUntil5AM
       \/ InitPngDrawCallback
       \/ InitDecode
       \/ InitGetBatteryPercentage
       \/ InitRelease
       \/ InitCheckButtonPress
       \/ InitWeather

FnNext ==
    \/ CallIsDeepSleepTime
    \/ CallGetSecondsUntil5AM
    \/ CallPngDrawCallback
    \/ DecodeLine
    \/ DecodeEnd
    \/ CallGetBatteryPercentage
    \/ CallDownloadPNGUrl
    \/ CallRelease
    \/ CallCheckButtonPress
    \/ CallFetchData
    \/ CallMapToDashboard

FnSpec == FnInit /\ [][FnNext]_vars

\* -------------------------------------------------------------- properties

Asleep == mode \in {"light", "deep"}

\* C1: in a cycle whose gate read a time h:m inside the window the device
\* neither runs the refresh of step 6 nor enters light sleep, and the deep
\* sleep it enters is programmed for getSecondsUntil5AM(h, m) seconds, h:m
\* being the time the gate read.
C1_DeepSleepForGateTime ==
    /\ cyc.gate = "true" => (~cyc.mainRefresh /\ mode # "light")
    /\ mode = "deep" =>
         /\ cyc.gate = "true"
         /\ sleepSeconds = getSecondsUntil5AM(Hour(cyc.gateTime),
                                              Minute(cyc.gateTime))

\* C2: a light sleep is entered only in a cycle whose gate was false, after
\* that cycle's dashboard refresh, with the timer armed for 600,000 ms whatever
\* the refresh returned; a cycle whose gate was false never enters deep sleep.
C2_LightSleepPlan ==
    /\ mode = "light" =>
         /\ cyc.gate = "false"
         /\ cyc.mainRefresh
         /\ cyc.refreshCalls >= 1
         /\ "timer" \in armed
         /\ sleepMs = 600000
    /\ cyc.gate = "false" => mode # "deep"
    /\ pc = "main_ret" => cyc.mainRefresh

\* a cold boot at 14:00 whose refresh failed has reached its light sleep
C2_Witness ==
    /\ mode = "light"
    /\ cyc.wokeFrom = "cold"
    /\ cyc.gateTime = 14 * 60
    /\ cyc.render = "none"
    /\ sleepMs = 600000

\* C3: a render in a cycle that follows a light-sleep wake uses partial
\* refresh; the first render after a cold boot, a restart or a deep-sleep wake
\* uses full refresh.
C3_PartialAfterLightSleep ==
    /\ (cyc.wokeFrom = "light" /\ cyc.render # "none") => cyc.render = "partial"
    /\ (cyc.wokeFrom # "light" /\ cyc.render # "none" /\ cyc.refreshCalls = 1)
          => cyc.render = "full"

\* C4 as stated: a cycle whose gate is true has performed no dashboard refresh
\* and no image fetch when it enters deep sleep, button pressed or not.
C4_NoRefreshBeforeDeepSleep ==
    mode = "deep" => (cyc.refreshCalls = 0 /\ ~cyc.fetched)

\* C4 amended: a detected press is acted upon before the gate is evaluated; a
\* cycle that ends in deep sleep has performed a dashboard refresh exactly when
\* a refresh-button press was detected in it (one refresh, and image fetches
\* only within it), and none on a slide press or without a press.
C4_ButtonHandledBeforeGate ==
    /\ rd.ret = "button" => (cyc.gate = "none" /\ cyc.pressRefresh)
    /\ mode = "deep" =>
         /\ cyc.refreshCalls = (IF cyc.pressRefresh THEN 1 ELSE 0)
         /\ cyc.fetched => cyc.pressRefresh
         /\ cyc.render # "none" => cyc.pressRefresh

\* a refresh-button press in a cycle that ended in deep sleep, image fetched
C4_Witness ==
    /\ mode = "deep"
    /\ cyc.pressRefresh
    /\ cyc.fetched
    /\ cyc.refreshCalls = 1

\* C5: at deep-sleep entry displayInitialized and timeInitialized are false,
\* and displayInitialized is true only if the panel has been initialised since
\* the last reset.
C5_FlagsClearedForDeepSleep ==
    /\ mode = "deep" => (~displayInitialized /\ ~timeInitialized)
    /\ displayInitialized => panelInit

\* deep sleep entered in an epoch whose setup had synced the time
C5_Witness ==
    /\ mode = "deep"
    /\ clockValid
    /\ cyc.gate = "true"
    /\ ~timeInitialized
    /\ bootCount >= 1

\* C6: downloadPNG always leaves its read loop.
C6_FetchTerminates == (pc = "dl_read") ~> (pc # "dl_read")

\* C7: downloadPNG fails without allocating when the status is not 200 or the
\* declared length n is <= 0 or > 150000; a buffer is allocated only for
\* 0 < n <= 150000 and then has exactly n bytes.
C7_LengthValidation ==
    /\ (dl.result # "none"
        /\ (dl.httpCode # 200 \/ dl.contentLength <= 0
            \/ dl.contentLength > 150000))
          => (dl.result = "fail" /\ ~dl.allocated /\ pngBuffer = "null"
              /\ pngBufferSize = 0 /\ heapBlocks = 0)
    /\ dl.allocated =>
          (dl.httpCode = 200 /\ dl.contentLength > 0
           /\ dl.contentLength <= 150000)
    /\ pngBuffer # "null" =>
          (dl.allocated /\ pngBufferSize = dl.contentLength /\ heapBlocks = 1)

\* a response that declares 150001 bytes has been refused without a buffer
C7_Witness ==
    /\ dl.result = "fail"
    /\ dl.httpCode = 200
    /\ dl.contentLength = 150001
    /\ ~dl.allocated
    /\ pngBuffer = "null"

\* C8 as stated: downloadPNG returns success exactly when the number of body
\* bytes read equals the declared length.
C8_SuccessIffAllBytesRead ==
    (dl.result \in {"ok", "fail"} /\ dl.httpCode = 200) =>
        ((dl.result = "ok") <=> (dl.bytesRead = dl.contentLength))

\* C8 amended: for a 200 response downloadPNG returns success exactly when the
\* declared length n is positive and the number of body bytes read equals n,
\* and then the buffer held has size n; on every failure, a truncated body
\* included, no buffer is held and pointer and size are empty.
C8_SuccessIffAllOfPositiveLength ==
    (dl.result \in {"ok", "fail"} /\ dl.httpCode = 200) =>
        /\ (dl.result = "ok") <=>
              (dl.contentLength > 0 /\ dl.bytesRead = dl.contentLength)
        /\ dl.result = "ok" =>
              (pngBuffer = "buf" /\ pngBufferSize = dl.contentLength)
        /\ dl.result = "fail" =>
              (pngBuffer = "null" /\ pngBufferSize = 0 /\ heapBlocks = 0)

\* a body cut off after some but not all of its bytes: failure, buffer released
C8_Witness ==
    /\ dl.result = "fail"
    /\ dl.allocated
    /\ dl.bytesRead > 0
    /\ dl.bytesRead < dl.contentLength
    /\ pngBuffer = "null"
    /\ pngBufferSize = 0

\* C9: at most one image buffer is allocated at a time, nothing allocated is
\* ever lost, the pointer is non-null exactly when the size is non-zero, and no
\* buffer is held at a sleep entry or at the start of a fetch.
C9_BufferOwnership ==
    /\ heapBlocks <= 1
    /\ (heapBlocks = 1) <=> (pngBuffer # "null")
    /\ (pngBuffer # "null") <=> (pngBufferSize # 0)
    /\ Asleep => (pngBuffer = "null" /\ heapBlocks = 0)
    /\ pc = "dl_get" => (pngBuffer = "null" /\ heapBlocks = 0)

\* a light sleep entered after a fetch whose image could not be decoded
C9_Witness ==
    /\ mode = "light"
    /\ cyc.render # "none"
    /\ panel.kind = "white"
    /\ heapBlocks = 0
    /\ pngBuffer = "null"

\* C10: at every suspend, light or deep, the radio is off.
C10_RadioOffAtSleep == Asleep => wifi = "off"

\* a deep sleep entered in a cycle that had used the network for a fetch
C10_Witness ==
    /\ mode = "deep"
    /\ cyc.fetched
    /\ wifi = "off"

\* C11: at every suspend, light or deep, the armed wake sources are exactly
\* the timer and the two buttons.
C11_ArmedSourcesAtSleep == Asleep => armed = {"timer", "ext0", "ext1"}

\* C12: the device never suspends, in light or in deep sleep, in a cycle in
\* which esp_sleep_enable_timer_wakeup reported an error.
C12_NoSuspendAfterTimerError == Asleep => ~cyc.timerErr

ReturnedFromRefresh == pc \in {"main_ret", "button_ret"}

C14_DecodeFailureKeepsPanel ==
    [][(pc = "update" /\ rd'.decode = "failed") => panel' = panel]_vars

\* C15: in a cycle that follows a light-sleep or a deep-sleep wake no step
\* draws a status line on the panel, and the cycle does not add the delay of
\* the first boot after a failed refresh.
C15_StatusOnlyOnFirstBoot ==
    [][(cyc.wokeFrom \in {"light", "deep"} /\ cyc'.wokeFrom = cyc.wokeFrom) =>
          /\ panel'.kind = "status" => panel' = panel
          /\ ~cyc'.extraDelay]_vars

\* C16: when the gate is about to be evaluated the time is marked as synced or
\* this cycle has tried to connect and sync.
C16_SyncAttemptedBeforeGate ==
    (pc = "gate" /\ ~timeInitialized) => cyc.syncAttempted

\* C17: syncTimeWithNTP calls getLocalTime at most 10 times and returns true
\* exactly when one of the calls obtained the time.
C17_SyncPollsAndResult ==
    cyc.sync.called =>
        /\ cyc.sync.polls <= 10
        /\ cyc.sync.result <=> cyc.sync.gotTime

\* C18: refreshDashboard makes at most 2 attempts, makes none after an attempt
\* whose fetch succeeded, returns success exactly when an attempt's fetch
\* succeeded, and calls connectWiFi in an attempt only when the status was not
\* connected.
C18_RefreshAttempts ==
    /\ rd.attempt <= 2
    /\ rd.fetchOk => (pc = "update" \/ ReturnedFromRefresh)
    /\ ReturnedFromRefresh => (rd.result <=> rd.fetchOk)
    /\ rd.connectCalled => ~rd.wasConnected
    /\ (pc \in {"dl_get", "dl_read", "update"} /\ ~rd.connectCalled)
          => rd.wasConnected

\* a refresh whose second attempt fetched the image without connecting again
C18_Witness ==
    /\ pc = "main_ret"
    /\ rd.result
    /\ rd.fetchOk
    /\ rd.attempt = 2
    /\ rd.wasConnected
    /\ ~rd.connectCalled

\* C19: a cycle outside the deep-sleep window in which a refresh-button press
\* was detected has called refreshDashboard for the press, before the gate and
\* apart from the refresh of step 6, when it enters its sleep; the handler is
\* entered whatever woke the device and whenever it woke.
C19_PressForcesRefresh ==
    /\ (cyc.pressRefresh /\ cyc.gate # "none") => cyc.refreshCalls >= 1
    /\ (mode = "light" /\ cyc.pressRefresh) =>
          (cyc.gate = "false" /\ cyc.refreshCalls = 2)

\* a press that ended a light sleep before its timer has been answered by a
\* refresh of its own
C19_Witness ==
    /\ mode = "light"
    /\ cyc.wokeFrom = "light"
    /\ wakeCause = "ext0"
    /\ cyc.pressRefresh
    /\ cyc.refreshCalls = 2

SlidePressHandled == pc = "handle_slide" /\ slideButtonPressed /\ pc' = "gate"

C21_WindowTest ==
    (call.fn = "isDeepSleepTime" /\ call.done) =>
        /\ call.out <=> (call.in.start <= call.in.hour
                         /\ call.in.hour < call.in.end)
        /\ (call.in.start = 0 /\ call.in.end = 5) =>
              (call.out <=> call.in.hour \in {0, 1, 2, 3, 4})

\* the end hour of the default window has been tested and is outside
C21_Witness ==
    /\ call.fn = "isDeepSleepTime"
    /\ call.done
    /\ call.in = [hour |-> 5, start |-> 0, end |-> 5]
    /\ call.out = FALSE

\* minutes from the time t (minutes after midnight) to the next 05:00
MinutesToNext5AM(t) ==
    LET d == (5 * 60 - t + MinutesPerDay) % MinutesPerDay
    IN  IF d = 0 THEN MinutesPerDay ELSE d

\* C22: getSecondsUntil5AM(hour, minute) is the number of seconds from
\* hour:minute to the next 05:00 plus 120, and it does not grow from one
\* minute to the next as long as the next minute is not 05:00.
C22_SecondsUntil5AM ==
    (call.fn = "getSecondsUntil5AM" /\ call.done) =>
        /\ call.out.seconds =
              MinutesToNext5AM(call.in.hour * 60 + call.in.minute) * 60 + 120
        /\ call.out.seconds >= 120 + 60
        /\ call.out.nextMinute # 5 * 60 =>
              call.out.secondsNext <= call.out.seconds

\* 23:30 has been computed: five and a half hours and the buffer
C22_Witness ==
    /\ call.fn = "getSecondsUntil5AM"
    /\ call.done
    /\ call.in = [hour |-> 23, minute |-> 30]
    /\ call.out.seconds = 19800 + 120

\* the palette index of column x when the pixels of a byte are taken most
\* significant bits first, 8 \div bpp of them per byte
IndexMsbFirst(pixels, bpp, x) ==
    LET perByte == 8 \div bpp
        place == perByte - 1 - (x % perByte)
    IN  (pixels[x \div perByte + 1] \div 2^(bpp * place)) % 2^bpp

\* L = (299 R + 587 G + 114 B) / 1000 of a palette entry
Luminosity(palette, index) ==
    (299 * Palette(palette, 3 * index) + 587 * Palette(palette, 3 * index + 1)
     + 114 * Palette(palette, 3 * index + 2)) \div 1000

\* C23: at each bit depth the callback draws, in every column of the
\* scanline, the light colour when the palette entry selected most
\* significant bits first has L > 127 and the dark colour otherwise.
C23_TwoToneDecoding ==
    (call.fn = "pngDrawCallback" /\ call.done) =>
        /\ call.out.ret = 1
        /\ DOMAIN call.out.drawn = 0..(call.in.iWidth - 1)
        /\ \A x \in DOMAIN call.out.drawn :
              call.out.drawn[x] =
                 IF Luminosity(call.in.pPalette,
                               IndexMsbFirst(call.in.pPixels, call.in.iBpp, x))
                        > 127
                 THEN "GxEPD_WHITE" ELSE "GxEPD_BLACK"

\* four pixels of four bits each, 8 0 1 11, drawn with the palette whose
\* entry 0 alone is dark among the first sixteen: light, dark, light, light
C23_Witness ==
    /\ call.fn = "pngDrawCallback"
    /\ call.done
    /\ call.in.iBpp = 4
    /\ call.in.pPixels = <<128, 27>>
    /\ call.in.iWidth = 4
    /\ call.in.pPalette = "inverse"
    /\ call.out.drawn = [x \in 0..3 |-> IF x = 1 THEN "GxEPD_BLACK"
                                        ELSE "GxEPD_WHITE"]

\* C24: whatever width and height a bitmap declares, every scanline is
\* decoded, and the columns drawn on line y are those below min(width, 800)
\* when y is below min(height, 480) and none otherwise.
C24_ClippedToPanel ==
    (call.fn = "decode" /\ call.in.iPixelType = "PNG_PIXEL_INDEXED") =>
        /\ call.out.y >= 0 =>
              call.out.columns =
                 IF call.out.y < Min(call.in.height, 480)
                 THEN 0..(Min(call.in.width, 800) - 1) ELSE {}
        /\ call.out.columns \subseteq 0..799
        /\ call.out.y < call.in.height
        /\ call.done => call.out.renderLine = call.in.height

\* line 480 of a bitmap of 801 x 481 has been decoded and nothing was drawn
C24_Witness ==
    /\ call.fn = "decode"
    /\ call.in = [iPixelType |-> "PNG_PIXEL_INDEXED", width |-> 801,
                  height |-> 481]
    /\ call.out.y = 480
    /\ call.out.columns = {}
    /\ call.done

\* C25: when the bitmap decoded last in a cycle is not indexed, png.decode
\* has given it one scanline only, no pixel of it has been drawn and the panel
\* does not show it; updateDisplay has returned with the buffer released,
\* refreshDashboard returns normally, and the sleep of the cycle is entered
\* without a buffer.
C25_NonIndexedRejected ==
    cyc.image.kind = "nonindexed" =>
        /\ cyc.image.callbacks = 1
        /\ ~cyc.image.drew
        /\ panel.kind # "image"
        /\ rd.decode = "failed" =>
              (ReturnedFromRefresh /\ rd.result /\ pngBuffer = "null"
               /\ pngBufferSize = 0 /\ heapBlocks = 0)
        /\ Asleep => (pngBuffer = "null" /\ heapBlocks = 0)

\* a light sleep entered in a cycle whose bitmap was not indexed
C25_Witness ==
    /\ mode = "light"
    /\ cyc.image.kind = "nonindexed"
    /\ cyc.image.callbacks = 1
    /\ cyc.render # "none"
    /\ panel.kind = "white"

\* C26: getBatteryPercentage returns -1 exactly when twice the reading is
\* below 2.5 V; otherwise it returns an integer from 0 to 100 that is the
\* linear map from 3.0 V (0) to 4.2 V (100), clamped, to within the cut to an
\* integer; the enable pin is low when it returns.
C26_BatteryPercentage ==
    (call.fn = "getBatteryPercentage" /\ call.done) =>
        LET twice == 2 * call.in.mv
            p == call.out.percent
            exact12 == IF twice < 3000 THEN 0
                       ELSE IF twice > 4200 THEN 1200 ELSE twice - 3000
        IN  /\ (p = -1) <=> (twice < 2500)
            /\ p \in {-1} \cup 0..100
            /\ p # -1 => (12 * p <= exact12 /\ exact12 <= 12 * (p + 1))
            /\ (twice = 3000 => p = 0) /\ (twice = 4200 => p = 100)
            /\ call.out.enablePin = LOW

\* a reading of 1250 mV, 2.5 V at the battery, is a battery and gives 0
C26_Witness ==
    /\ call.fn = "getBatteryPercentage"
    /\ call.done
    /\ call.in.mv = 1250
    /\ call.out.percent = 0
    /\ call.out.enablePin = LOW

\* the number a sequence of decimal digits stands for
RECURSIVE FromDecimal(_)
FromDecimal(digits) ==
    IF digits = <<>> THEN 0
    ELSE 10 * FromDecimal(SubSeq(digits, 1, Len(digits) - 1))
         + digits[Len(digits)]

\* C27: the URL downloadPNG requests has the query battery=<p> exactly when
\* the battery reading is supported (not -1), p is then the reading in decimal
\* and lies in 0..100; without a supported reading the URL has no query and is
\* requested all the same.
C27_BatteryParameter ==
    (call.fn = "downloadPNG" /\ call.done) =>
        /\ call.out.url.path = "IMAGE_PATH"
        /\ (call.out.url.query # <<>>) <=> (call.out.batteryPercent # -1)
        /\ call.out.url.query # <<>> =>
              /\ call.out.url.query[1] = "battery"
              /\ \A i \in DOMAIN call.out.url.query[2] :
                    call.out.url.query[2][i] \in 0..9
              /\ FromDecimal(call.out.url.query[2]) = call.out.batteryPercent
              /\ call.out.batteryPercent \in 0..100

\* a reading without a battery has produced a URL without the parameter
C27_Witness ==
    /\ call.fn = "downloadPNG"
    /\ call.done
    /\ call.out.batteryPercent = -1
    /\ call.out.url = [path |-> "IMAGE_PATH", query |-> <<>>]

\* C28: after a release path has run the pointer is null, the size is 0 and
\* the block, if there was one, has been freed once; a release path that runs
\* with no buffer held frees nothing and leaves pointer and size empty.
C28_ReleaseIdempotent ==
    call.fn = "release" =>
        /\ call.out.b.heapBlocks >= 0
        /\ call.out.applied >= 1 =>
              call.out.b = [pngBuffer |-> "null", pngBufferSize |-> 0,
                            heapBlocks |-> 0]
        /\ ~call.in.held =>
              call.out.b = [pngBuffer |-> "null", pngBufferSize |-> 0,
                            heapBlocks |-> 0]

\* updateDisplay has released a buffer and the failed-download path has then
\* run without one
C28_Witness ==
    /\ call.fn = "release"
    /\ call.done
    /\ call.in = [held |-> TRUE, paths |-> <<"updateDisplay", "downloadPNG">>]
    /\ call.out.applied = 2
    /\ call.out.b.pngBuffer = "null"
    /\ call.out.b.heapBlocks = 0

\* C29: the step that ends a deep sleep leaves the sketch at the start of
\* setup() with the RTC variables at their defaults (bootCount 0, flags false,
\* lastWakeTime 0) and the RAM re-initialised; the setup() that follows
\* initialises the hardware and attempts the time sync; a render of that
\* cycle uses full refresh.
C29_DeepWakeIsColdBoot ==
    [][/\ (mode = "deep" /\ mode' # "deep") =>
             /\ pc' = "setup"
             /\ bootCount' = 0
             /\ ~timeInitialized' /\ ~displayInitialized'
             /\ lastWakeTime' = 0
             /\ ~panelInit' /\ wifi' = "off" /\ pngBuffer' = "null"
       /\ (cyc.wokeFrom = "deep" /\ pc = "setup" /\ pc' # "setup") =>
             (panelInit' /\ cyc'.syncAttempted)
       /\ (cyc'.wokeFrom = "deep" /\ cyc'.render # "none") =>
             cyc'.render = "full"]_vars

\* C30: from the start of a pass of loop() the sketch reaches a sleep entry
\* or a restart.
C30_CycleEnds == (pc = "loop") ~> (Asleep \/ pc = "setup")

\* C31: the step that suspends into light sleep and the step that resumes
\* from it leave bootCount, timeInitialized, displayInitialized and
\* lastWakeTime as they were, and the resume goes on with the next pass of
\* loop(), not with setup().
C31_LightSleepKeepsState ==
    [][/\ (mode # "light" /\ mode' = "light") => UNCHANGED rtcVars
       /\ (mode = "light" /\ mode' # "light") =>
              /\ UNCHANGED rtcVars
              /\ mode' = "awake"
              /\ pc' = "loop"]_vars

\* the pass of loop() after a light sleep of the first epoch: setup() has run
\* once, and the gate of this pass has sent it to the refresh
C31_Witness ==
    /\ cyc.wokeFrom = "light"
    /\ bootCount = 1
    /\ timeInitialized
    /\ cyc.mainRefresh
    /\ pc = "rd_start"

\* the last call before call i that read the pins (0: there is none)
PreviousPoll(i) ==
    LET earlier == {j \in 1..(i - 1) : ~call.in[j].throttled}
    IN  IF earlier = {} THEN 0
        ELSE CHOOSE j \in earlier : \A k \in earlier : k <= j

\* C32: a call of checkButtonPress reports a button only when it reads the
\* button's pin LOW and the previous call that read the pins read it HIGH (or
\* there was none), so a button held low over several calls is reported once.
C32_ReportedOncePerPress ==
    (call.fn = "checkButtonPress") =>
        \A i \in 1..Len(call.out.reports) :
            /\ call.out.reports[i] = "refresh" =>
                  /\ ~call.in[i].throttled
                  /\ call.in[i].refreshState = LOW
                  /\ PreviousPoll(i) # 0 =>
                        call.in[PreviousPoll(i)].refreshState = HIGH
            /\ call.out.reports[i] = "slide" =>
                  /\ ~call.in[i].throttled
                  /\ call.in[i].slideState = LOW
                  /\ PreviousPoll(i) # 0 =>
                        call.in[PreviousPoll(i)].slideState = HIGH

\* C33: a deep sleep is programmed for at least 180 seconds (one minute
\* before the window's end, plus the buffer) and at most 18,120 seconds (the
\* whole window plus the buffer), also when the clock has advanced between the
\* gate's read and the read the duration is computed from.
C33_DeepSleepDurationBounded ==
    mode = "deep" =>
        /\ sleepSeconds >= 60 + WAKE_BUFFER_SEC
        /\ sleepSeconds <= (DEEP_SLEEP_END_HOUR - DEEP_SLEEP_START_HOUR) * 3600
                               + WAKE_BUFFER_SEC

\* C34: in the cycle that follows a deep sleep ended by its timer the local
\* time is at or after the window's end, the gate is not true, no deep sleep
\* is entered, and once the gate has been evaluated the refresh is under way.
C34_TimerWakeLeavesWindow ==
    (cyc.wokeFrom = "deep" /\ wakeCause = "timer") =>
        /\ clockValid
        /\ Hour(now) >= DEEP_SLEEP_END_HOUR
        /\ cyc.gate # "true"
        /\ pc # "gate_true"
        /\ mode # "deep"
        /\ cyc.gate = "false" => cyc.mainRefresh

\* a deep sleep entered at 02:30 has ended by its timer at 05:02; the gate of
\* the cycle was false and refreshDashboard is being called from loop()
C34_Witness ==
    /\ cyc.wokeFrom = "deep"
    /\ wakeCause = "timer"
    /\ now = DEEP_SLEEP_END_HOUR * 60 + WAKE_BUFFER_SEC \div 60
    /\ cyc.gate = "false"
    /\ pc = "rd_start"
    /\ rd.ret = "main"

\* C35: when setup() has finished after a cold boot, a restart or a deep
\* sleep, timeInitialized is true only if syncTimeWithNTP was called and
\* returned true; a sync that returned false leaves it false.
C35_SyncedOnlyAfterSuccess ==
    (pc = "loop" /\ cyc.wokeFrom # "light") =>
        (timeInitialized => (cyc.sync.called /\ cyc.sync.result))

\* C36: while the local time cannot be read the gate is not true; a cycle
\* whose gate could not read the time goes to the dashboard refresh and, when
\* it sleeps, to light sleep; a deep sleep is entered only after both the
\* gate's read and the second read have given a time.
C36_NoDeepSleepWithoutTime ==
    /\ ~clockValid => (cyc.gate # "true" /\ pc # "gate_true")
    /\ (cyc.gate = "false" /\ cyc.gateTime = -1) =>
          /\ cyc.mainRefresh
          /\ mode # "deep"
          /\ Asleep => (mode = "light" /\ cyc.refreshCalls >= 1)
    /\ mode = "deep" => (cyc.gateTime # -1 /\ cyc.readTime # -1)

\* the time has never been set (the sync of setup() failed), the gate could
\* not read it, the dashboard was refreshed and the device is in light sleep
C36_Witness ==
    /\ ~clockValid
    /\ cyc.gate = "false"
    /\ cyc.gateTime = -1
    /\ cyc.refreshCalls >= 1
    /\ mode = "light"

\* C37: refreshDashboard returns true only when the image it fetched was
\* opened, decoded and drawn; after a fetch whose image did not decode it does
\* not return from its first attempt.
C37_SuccessOnlyAfterDecode ==
    ReturnedFromRefresh =>
        /\ rd.result => rd.decode = "ok"
        /\ (rd.decode = "failed" /\ rd.attempt = 1) => ~rd.result

\* C38: for every value of WEATHER_UNITS a wind speed of a report requested
\* in metric units (m/s) is given to the dashboard in km/h, times 3.6 and
\* rounded, and one requested in imperial units is given as it is, rounded.
C38_UnitsAgree ==
    (call.fn = "weatherService" /\ call.done /\ ~call.in.wind_speed.null) =>
        /\ call.out.units = "metric" =>
              call.out.wind_speed.v = MathRound(call.in.wind_speed.v * 36, 100)
        /\ call.out.units = "imperial" =>
              call.out.wind_speed.v = MathRound(call.in.wind_speed.v, 10)

====
